---- MODULE Spec2Model ----
(***************************************************************************)
(* Client layer of the Sunpath task program: the Accept, Reject and        *)
(* Reclaim button components (their handlers, busy flags and inline error  *)
(* translators) and the useSolanaProgram hook.                             *)
(*                                                                         *)
(* A JavaScript string is modelled as a sequence of tokens; includes,      *)
(* indexOf, substring and startsWith are computed on that sequence.        *)
(***************************************************************************)
EXTENDS Integers, Sequences, FiniteSets, TLC

\* ------------------------------------------------------------------ bounds
\* Number of handler runs (clicks) explored in one behaviour.
MaxClicks == 2
\* Longest sequence of diagnostic log lines given to the error translator.
MaxLogs == 3

\* ----------------------------------------------------------- string tokens
Marker == "SunpathError::"
ErrorMarker == "Error:"
FailedMarker == "Program failed to complete"

\* The three button components of the repository.
Comps == {"Accept", "Reject", "Reclaim"}

\* error.message || "不明なエラーが発生しました。"
MsgUnknown == <<"UnknownError">>
\* "プログラムの実行に失敗しました。"
MsgProgramFailed == <<"ProgramExecutionFailed">>
\* "ウォレットが接続されていません。"
MsgNotConnected == <<"WalletNotConnected">>
\* "タスクPDAと受取人アドレスは必須です。"
MsgRequired == <<"TaskPdaAndRecipientRequired">>
\* "受取人はタスク作成者と同じアドレスにすることはできません。"
MsgSameAddress == <<"RecipientSameAsTaskCreator">>
\* The message of the error new PublicKey(...) throws on a malformed string.
MsgInvalidKey == <<"Invalid public key input">>
\* `公開鍵の形式が正しくありません: ${e.message}` (Accept) and
\* `タスクアカウントPDAの形式が正しくありません: ${e.message}` (Reject, Reclaim)
FormatErrorMessage(c, inner) ==
    IF c = "Accept" THEN <<"PublicKeyFormatInvalid:">> \o inner
    ELSE <<"TaskPdaFormatInvalid:">> \o inner
\* `トランザクションが失敗しました: ${confirmation.value.err}`
TxFailedMessage(err) == <<"TransactionFailed:", err>>

\* ------------------------------------------------------- string operations
\* log.includes(t), where the program-error marker itself contains "Error:".
TokenHas(tok, t) == tok = t \/ (t = ErrorMarker /\ tok = Marker)

Includes(s, t) == \E i \in 1..Len(s) : TokenHas(s[i], t)

\* log.indexOf(t): position of the first occurrence (Includes(s, t) assumed).
IndexOf(s, t) == CHOOSE i \in 1..Len(s) :
    /\ TokenHas(s[i], t)
    /\ \A j \in 1..(i - 1) : ~TokenHas(s[j], t)

\* log.substring(log.indexOf(t) + t.length)
SubstringAfter(s, t) == SubSeq(s, IndexOf(s, t) + 1, Len(s))

StartsWith(s, t) == Len(s) >= 1 /\ s[1] = t

\* ------------------------------------------------------- error translator
\* Mutant of ErrorTable: Accept's chain without its NotTaskConsigner branch.
ErrorTableNoPermissionDropped(c) ==
    IF c = "Accept" THEN
        << <<"TaskNotOpen", <<"AcceptTaskNotOpen (TaskNotOpen)">> >>,
           <<"TaskExpired", <<"TaskIsExpired (TaskExpired)">> >>,
           <<"InvalidRecipient", <<"InvalidRecipientAddress (InvalidRecipient)">> >> >>
    ELSE IF c = "Reject" THEN
        << <<"NotTaskConsigner", <<"RejectNoPermission (NotTaskConsigner)">> >>,
           <<"TaskNotOpen", <<"RejectTaskNotOpen (TaskNotOpen)">> >>,
           <<"TaskExpired", <<"TaskIsExpired (TaskExpired)">> >> >>
    ELSE
        << <<"NotConsigner", <<"ReclaimNoPermission (NotConsigner)">> >>,
           <<"CannotReclaimFunds", <<"CannotReclaimYet (CannotReclaimFunds)">> >>,
           <<"DenialLockupActive", <<"LockupActive (DenialLockupActive)">> >> >>

\* Mutant of ErrorTable: Reclaim's chain without its DenialLockupActive branch.
ErrorTableLockupDropped(c) ==
    IF c = "Accept" THEN
        << <<"NotTaskConsigner", <<"AcceptNoPermission (NotTaskConsigner)">> >>,
           <<"TaskNotOpen", <<"AcceptTaskNotOpen (TaskNotOpen)">> >>,
           <<"TaskExpired", <<"TaskIsExpired (TaskExpired)">> >>,
           <<"InvalidRecipient", <<"InvalidRecipientAddress (InvalidRecipient)">> >> >>
    ELSE IF c = "Reject" THEN
        << <<"NotTaskConsigner", <<"RejectNoPermission (NotTaskConsigner)">> >>,
           <<"TaskNotOpen", <<"RejectTaskNotOpen (TaskNotOpen)">> >>,
           <<"TaskExpired", <<"TaskIsExpired (TaskExpired)">> >> >>
    ELSE
        << <<"NotConsigner", <<"ReclaimNoPermission (NotConsigner)">> >>,
           <<"CannotReclaimFunds", <<"CannotReclaimYet (CannotReclaimFunds)">> >> >>

\* The startsWith chain of each component, in source order: tag, message.
ErrorTable(c) ==
    IF c = "Accept" THEN
        << <<"NotTaskConsigner", <<"AcceptNoPermission (NotTaskConsigner)">> >>,
           <<"TaskNotOpen", <<"AcceptTaskNotOpen (TaskNotOpen)">> >>,
           <<"TaskExpired", <<"TaskIsExpired (TaskExpired)">> >>,
           <<"InvalidRecipient", <<"InvalidRecipientAddress (InvalidRecipient)">> >> >>
    ELSE IF c = "Reject" THEN
        << <<"NotTaskConsigner", <<"RejectNoPermission (NotTaskConsigner)">> >>,
           <<"TaskNotOpen", <<"RejectTaskNotOpen (TaskNotOpen)">> >>,
           <<"TaskExpired", <<"TaskIsExpired (TaskExpired)">> >> >>
    ELSE
        << <<"NotConsigner", <<"ReclaimNoPermission (NotConsigner)">> >>,
           <<"CannotReclaimFunds", <<"CannotReclaimYet (CannotReclaimFunds)">> >>,
           <<"DenialLockupActive", <<"LockupActive (DenialLockupActive)">> >> >>

\* Mutant of MatchTable: text that matches no entry becomes the default.
RECURSIVE MatchTableClosed(_, _, _)
MatchTableClosed(table, i, text) ==
    IF i > Len(table) THEN MsgUnknown
    ELSE IF StartsWith(text, table[i][1]) THEN table[i][2]
    ELSE MatchTableClosed(table, i + 1, text)

\* if (errorMessage.startsWith(tag1)) ... else if ... : first matching entry,
\* otherwise errorMessage stays the text after the marker.
RECURSIVE MatchTable(_, _, _)
MatchTable(table, i, text) ==
    IF i > Len(table) THEN text
    ELSE IF StartsWith(text, table[i][1]) THEN table[i][2]
    ELSE MatchTable(table, i + 1, text)

\* Mutant of MarkerMessage: the text after the marker is not mapped.
MarkerMessageRaw(c, log) == SubstringAfter(log, Marker)

\* The body of the marker branch: substring after the marker, then the table.
MarkerMessage(c, log) == MatchTable(ErrorTable(c), 1, SubstringAfter(log, Marker))

\* Mutant of ScanLogs: the marker branch does not break, so a later line can
\* replace its message.
RECURSIVE ScanLogsNoBreak(_, _, _, _)
ScanLogsNoBreak(c, logs, i, errorMessage) ==
    IF i > Len(logs) THEN errorMessage
    ELSE IF Includes(logs[i], Marker)
         THEN ScanLogsNoBreak(c, logs, i + 1, MarkerMessage(c, logs[i]))
    ELSE IF Includes(logs[i], ErrorMarker) THEN ScanLogsNoBreak(c, logs, i + 1, logs[i])
    ELSE IF Includes(logs[i], FailedMarker)
         THEN ScanLogsNoBreak(c, logs, i + 1, MsgProgramFailed)
    ELSE ScanLogsNoBreak(c, logs, i + 1, errorMessage)

\* Mutant of ScanLogs: the "Error:" branch breaks too.
RECURSIVE ScanLogsErrorBreaks(_, _, _, _)
ScanLogsErrorBreaks(c, logs, i, errorMessage) ==
    IF i > Len(logs) THEN errorMessage
    ELSE IF Includes(logs[i], Marker) THEN MarkerMessage(c, logs[i])
    ELSE IF Includes(logs[i], ErrorMarker) THEN logs[i]
    ELSE IF Includes(logs[i], FailedMarker)
         THEN ScanLogsErrorBreaks(c, logs, i + 1, MsgProgramFailed)
    ELSE ScanLogsErrorBreaks(c, logs, i + 1, errorMessage)

\* for (const log of error.logs) { ... }: the marker branch assigns and breaks,
\* the two other branches assign and go on.
RECURSIVE ScanLogs(_, _, _, _)
ScanLogs(c, logs, i, errorMessage) ==
    IF i > Len(logs) THEN errorMessage
    ELSE IF Includes(logs[i], Marker) THEN MarkerMessage(c, logs[i])
    ELSE IF Includes(logs[i], ErrorMarker) THEN ScanLogs(c, logs, i + 1, logs[i])
    ELSE IF Includes(logs[i], FailedMarker) THEN ScanLogs(c, logs, i + 1, MsgProgramFailed)
    ELSE ScanLogs(c, logs, i + 1, errorMessage)

\* The catch block's message: a thrown object is [message, hasLogs, logs].
Translate(c, error) ==
    LET errorMessage == IF error.message # <<>> THEN error.message ELSE MsgUnknown
    IN  IF error.hasLogs THEN ScanLogs(c, error.logs, 1, errorMessage)
        ELSE errorMessage

\* ------------------------------------------------------------ public keys
\* useWallet().publicKey is null while no wallet is connected.
Null == "null"
\* Wallet identities.
Keys == {"K1", "K2"}
\* The task account the address string "sT1" names.
TaskAccounts == {"T1"}

\* Address strings a parent can pass as props: empty, malformed, or the
\* base58 text of a 32-byte key.
Base58 == [s \in {"sK1", "sK2", "sT1"} |->
              IF s = "sK1" THEN "K1" ELSE IF s = "sK2" THEN "K2" ELSE "T1"]
TaskStrings == {"", "bad", "sT1"}
RecipientStrings == {"", "bad", "sK1", "sK2"}

\* new PublicKey(str) throws on a string that does not decode to 32 bytes.
PublicKeyThrows(str) == str \notin DOMAIN Base58
\* new PublicKey(str) otherwise
NewPublicKey(str) == Base58[str]

\* --------------------------------------------------------------- variables
VARIABLES
    publicKey,        \* useWallet().publicKey: a key of Keys or Null
    signTransaction,  \* useWallet().signTransaction is present
    isLoading,        \* the busy flag of each component
    clicks,           \* number of handler runs entered so far
    pending,          \* the handler runs suspended at an await, in click order
    last,             \* the handler run that returned most recently
    rpcCalls,         \* number of instruction calls handed to ....rpc()
    hook,             \* what useSolanaProgram returned at the last render
    tInvoker,         \* error translator in isolation: the component
    tError,           \* ... the thrown object
    tOut,             \* ... the message it produced
    tDone,            \* ... whether it ran
    now,              \* the cluster's clock, in seconds
    accounts,         \* the cluster's accounts, by address
    lastTx            \* the last transaction the test script or another client sent

vars == <<publicKey, signTransaction, isLoading, clicks, pending, last, rpcCalls,
          hook, tInvoker, tError, tOut, tDone, now, accounts, lastTx>>
sysVars == <<publicKey, signTransaction, isLoading, clicks, pending, last, rpcCalls, hook>>
trVars == <<tInvoker, tError, tOut, tDone>>
chainVars == <<now, accounts, lastTx>>

\* The consigner stored in task account T1 by the external program.
TaskConsigner == "K1"

\* ------------------------------------------------------- provider acquirer
\* useSolanaProgram: provider is getProvider(), null when the public key or
\* the signing capability is absent; nothing is thrown and no callback exists.
useSolanaProgram(pk, sign) ==
    [provider |-> IF pk = Null \/ ~sign THEN Null ELSE "AnchorProvider",
     publicKey |-> pk,
     errorSurfaced |-> FALSE]

\* Mutant of getProvider: the signing capability is not looked at.
getProviderKeyOnly(pk, sign) == pk # Null

\* getProvider of a component: TRUE when an AnchorProvider is returned; when
\* it returns null it has called onError (see HandlerStart).
getProvider(pk, sign) == ~(pk = Null \/ ~sign)

\* --------------------------------------------------------------- callbacks
\* onError(new Error(msg))
onError(run, msg) == [run EXCEPT !.errCalls = @ + 1, !.errMsg = msg]

\* onTaskAccepted / onTaskRejected / onFundsReclaimed (signature)
onSuccess(run, signature) == [run EXCEPT !.okCalls = @ + 1, !.okArg = signature]

\* --------------------------------------------------------------- the button
\* Mutant of Disabled: one busy flag shared by the three components.
DisabledWhileAnyBusy(c, taskStr, recStr) ==
    \/ publicKey = Null
    \/ \E d \in {"Accept", "Reject", "Reclaim"} : isLoading[d]
    \/ taskStr = ""
    \/ (c = "Accept" /\ recStr = "")

\* Mutant of Disabled: the busy flag left out of the disabled attribute.
DisabledNotBusy(c, taskStr, recStr) ==
    \/ publicKey = Null
    \/ taskStr = ""
    \/ (c = "Accept" /\ recStr = "")

\* disabled={!publicKey || isLoading || !taskAccountPDAString [|| !recipientPublicKeyString]}
Disabled(c, taskStr, recStr) ==
    \/ publicKey = Null
    \/ isLoading[c]
    \/ taskStr = ""
    \/ (c = "Accept" /\ recStr = "")

\* ---------------------------------------------------------------- handlers
\* Mutant of Validate: the same-address check left out.
ValidateNoSameAddress(c, taskStr, recStr, pk) ==
    IF c = "Accept" THEN
        IF taskStr = "" \/ recStr = "" THEN MsgRequired
        ELSE IF PublicKeyThrows(taskStr) THEN MsgInvalidKey
        ELSE IF PublicKeyThrows(recStr) THEN MsgInvalidKey
        ELSE <<>>
    ELSE
        IF PublicKeyThrows(taskStr) THEN MsgInvalidKey ELSE <<>>

\* The first try block of a handler: <<>> when the inputs pass, otherwise the
\* message of the error thrown inside it.
Validate(c, taskStr, recStr, pk) ==
    IF c = "Accept" THEN
        IF taskStr = "" \/ recStr = "" THEN MsgRequired
        ELSE IF PublicKeyThrows(taskStr) THEN MsgInvalidKey
        ELSE IF PublicKeyThrows(recStr) THEN MsgInvalidKey
        ELSE IF NewPublicKey(recStr) = pk THEN MsgSameAddress
        ELSE <<>>
    ELSE
        IF PublicKeyThrows(taskStr) THEN MsgInvalidKey ELSE <<>>

\* The record of a handler run that has just been entered: its props, the
\* wallet it closed over, and what it has done so far.
NewRun(c, taskStr, recStr) ==
    [id |-> clicks + 1, comp |-> c,
     taskStr |-> taskStr, recStr |-> IF c = "Accept" THEN recStr ELSE "",
     signer |-> publicKey, sign |-> signTransaction,
     provider |-> FALSE, called |-> FALSE, pc |-> "done",
     sig |-> 0, confirmed |-> FALSE, confErr |-> FALSE,
     okCalls |-> 0, okArg |-> 0, okThrew |-> FALSE,
     errCalls |-> 0, errMsg |-> <<>>, errThrew |-> FALSE]

\* No handler has returned yet.
NoRun == [NewRun("none", "", "") EXCEPT !.id = 0, !.signer = Null, !.sign = FALSE]

\* The failure callback is the caller's function: when it throws, the
\* exception leaves the handler at that call.
Propagate(run, errThrows) ==
    IF errThrows /\ run.errCalls > 0 THEN [run EXCEPT !.errThrew = TRUE] ELSE run

\* Whether the failure callback throws is a choice only for a run that
\* called it.
ThrowChoices(run) == IF run.errCalls > 0 THEN BOOLEAN ELSE {FALSE}

\* The synchronous part of a handler, up to its first await: the run record
\* it leaves.  pc = "rpc" means the handler is suspended at `await ....rpc()`.
\* errThrows tells whether the failure callback throws when it is called.
HandlerStart(c, taskStr, recStr, errThrows) ==
    LET r0 == NewRun(c, taskStr, recStr)
        prov == getProvider(publicKey, signTransaction)
        r1 == IF prov THEN [r0 EXCEPT !.provider = TRUE]
              ELSE Propagate(onError(r0, MsgNotConnected), errThrows)
        bad == Validate(c, taskStr, r0.recStr, publicKey)
    IN  IF r1.errThrew THEN r1
        ELSE IF ~prov \/ publicKey = Null
        THEN IF publicKey = Null
             THEN Propagate(onError(r1, MsgNotConnected), errThrows)
             ELSE r1
        ELSE IF bad # <<>>
        THEN Propagate(onError(r1, FormatErrorMessage(c, bad)), errThrows)
        ELSE [r1 EXCEPT !.called = TRUE, !.pc = "rpc"]

\* Mutant of LoadingAfterStart: setIsLoading(true) placed before the first
\* try block.
LoadingBeforeValidation(c, run) ==
    IF run.provider /\ run.signer # Null THEN [isLoading EXCEPT ![c] = TRUE] ELSE isLoading

\* setIsLoading(true) is reached exactly when the handler gets to the rpc call.
LoadingAfterStart(c, run) ==
    IF run.pc = "rpc" THEN [isLoading EXCEPT ![c] = TRUE] ELSE isLoading

\* program.methods.<instruction>(...).accounts({...}).rpc(): the accounts and
\* the argument of the call a run makes.
RpcCall(run) ==
    [instr |-> run.comp,
     taskAccount |-> NewPublicKey(run.taskStr),
     consignerWallet |-> run.signer,
     recipient |-> IF run.comp = "Accept" THEN NewPublicKey(run.recStr) ELSE Null]

\* Mutant of CatchBlock: the error is logged and not passed to onError.
CatchBlockSilent(run, error) == run

\* catch (error) { ... onError(new Error(errorMessage)) }
CatchBlock(run, error) == onError(run, Translate(run.comp, error))

\* finally { setIsLoading(false) }: the handler has returned.
Finally(run) == [run EXCEPT !.pc = "done"]

\* Mutant of FinallySetIsLoading: the flag reset as the last statement of the
\* try block and of the catch block, which an exception of onError skips.
SetIsLoadingAfterCatch(run) ==
    IF run.errThrew THEN isLoading ELSE [isLoading EXCEPT ![run.comp] = FALSE]

\* The busy flag after the finally block, which runs on every way out of the
\* second try block.
FinallySetIsLoading(run) == [isLoading EXCEPT ![run.comp] = FALSE]

\* Mutant of RpcResolved: the success callback is called before the
\* confirmation is awaited.
RpcResolvedEager(run, signature) ==
    onSuccess([run EXCEPT !.sig = signature, !.pc = "confirm"], signature)

\* `await ....rpc()` returned a signature: the handler goes on to
\* `await provider.connection.confirmTransaction(signature, "finalized")`.
RpcResolved(run, signature) == [run EXCEPT !.sig = signature, !.pc = "confirm"]

\* What the success callback throws when it throws.
CallbackError == [message |-> <<"callback threw">>, hasLogs |-> FALSE, logs |-> <<>>]

\* Mutant of Confirmed: confirmation.value.err is not looked at.
ConfirmedIgnoringErr(run, err, throws) ==
    LET r1 == [run EXCEPT !.confirmed = TRUE, !.confErr = (err # Null)]
    IN  IF throws
        THEN onError([onSuccess(r1, r1.sig) EXCEPT !.okThrew = TRUE],
                     Translate(run.comp, CallbackError))
        ELSE onSuccess(r1, r1.sig)

\* confirmTransaction returned: err is Null or confirmation.value.err;
\* throws tells whether the success callback throws.
Confirmed(run, err, throws) ==
    LET r1 == [run EXCEPT !.confirmed = TRUE, !.confErr = (err # Null)]
    IN  IF err # Null
        THEN CatchBlock(r1, [message |-> TxFailedMessage(err), hasLogs |-> FALSE, logs |-> <<>>])
        ELSE IF throws
        THEN CatchBlock([onSuccess(r1, r1.sig) EXCEPT !.okThrew = TRUE], CallbackError)
        ELSE onSuccess(r1, r1.sig)

\* ------------------------------------------------------------------ inputs
\* The tags the three startsWith chains name, and one no chain names.
Tags == {"NotTaskConsigner", "TaskNotOpen", "TaskExpired", "InvalidRecipient",
         "NotConsigner", "CannotReclaimFunds", "DenialLockupActive"}
UnknownTag == "SomeOtherError"

\* Diagnostic log lines of the external program.
LogLines ==
    {<<Marker, t>> : t \in (Tags \ {"TaskExpired"}) \cup {UnknownTag}}
    \cup { <<"Program log:", Marker, "TaskExpired", "detail">>,
           <<ErrorMarker, "first">>,
           <<"Program log:", ErrorMarker, "second">>,
           <<FailedMarker>>,
           <<"Program log:", Marker>>,
           <<"Program log:", "invoke">> }

LogSeqs == UNION {[1..n -> LogLines] : n \in 0..MaxLogs}

\* Objects the catch block of a handler can receive from the rpc call.
ThrownErrors ==
    [message : {<<>>, <<"rpc failed">>}, hasLogs : {TRUE}, logs : LogSeqs]
    \cup [message : {<<>>, <<"rpc failed">>}, hasLogs : {FALSE}, logs : {<<>>}]

\* The thrown objects used when whole handlers run.
RpcErrors ==
    { [message |-> <<>>, hasLogs |-> FALSE, logs |-> <<>>],
      [message |-> <<"rpc failed">>, hasLogs |-> TRUE,
       logs |-> << <<"Program log:", "invoke">>, <<Marker, "NotTaskConsigner">> >>],
      [message |-> <<"rpc failed">>, hasLogs |-> TRUE,
       logs |-> << <<ErrorMarker, "first">>, <<FailedMarker>> >>] }

\* confirmation.value.err of a transaction that failed on chain.
ChainErrors == {"InstructionError"}

\* ------------------------------------------------- addresses and the cluster
\* The values the test script passes to initializeProgram and createTask.
adminPublicKey == "K1"
minimumRewardAmountInConfig == 10000000
denialPenaltyDuration == 1
rewardAmount == 15000000
durationSeconds == 3600
LAMPORTS_PER_SOL == 1000000000

\* Mutant of TaskAccountLen: the eight bytes of the discriminator left out.
TaskAccountLenNoDiscriminator == 32 + 8 + 8 + 8 + 8 + 1 + 8 + (1 + 32) + (1 + 32) + 1

\* TaskAccount::LEN as the test script writes it out.
TaskAccountLen == 8 + (32 + 8 + 8 + 8 + 8 + 1 + 8 + (1 + 32) + (1 + 32) + 1)

\* Bounds of the cluster model: the clock stops at MaxTime and the test script
\* and the other clients send at most MaxTx transactions.
MaxTime == 3
MaxTx == 2

\* Task identifiers the callers choose: one that fits a byte and one that
\* does not.
TaskIds == {1, 256}
\* Reward amounts: below the configured minimum, the minimum, the test's.
RewardAmounts == {minimumRewardAmountInConfig - 1, minimumRewardAmountInConfig, rewardAmount}
\* Durations: one that runs out within MaxTime and the test's.
Durations == {1, durationSeconds}

\* Mutant of ToLE8: the eight bytes in big-endian order.
ToBE8(n) == [i \in 1..8 |-> IF i = 8 THEN n % 256 ELSE IF i = 7 THEN (n \div 256) % 256 ELSE 0]

\* taskId.toArrayLike(Buffer, "le", 8)
RECURSIVE ByteLE(_, _)
ByteLE(n, i) == IF i = 1 THEN n % 256 ELSE ByteLE(n \div 256, i - 1)
ToLE8(n) == [i \in 1..8 |-> ByteLE(n, i)]

\* The seed sequences the clients pass to findProgramAddressSync.
configPdaSeed == <<"config_v2">>
TaskSeeds(consigner, taskId) == <<"task_account", consigner, ToLE8(taskId)>>

\* The seed sequences the program itself derives its accounts from.
ProgramConfigSeeds == <<"config_v2">>
ProgramTaskSeeds(consigner, taskId) ==
    <<"task_account", consigner, [i \in 1..8 |-> ByteLE(taskId, i)]>>

\* PublicKey.findProgramAddressSync(seeds, programId), for the one program
\* identity every client uses: a hash, modelled as a one-to-one naming of the
\* seed sequences.  "T1" is the task account the components are rendered with.
TaskAddressNames ==
    [k \in Keys |-> [id \in TaskIds |->
        IF k = "K1" THEN (IF id = 1 THEN "T1" ELSE "T2")
        ELSE (IF id = 1 THEN "T3" ELSE "T4")]]
FindProgramAddress(seeds) ==
    IF Len(seeds) = 1
    THEN (IF seeds[1] = "config_v2" THEN "Config" ELSE "Other")
    ELSE IF Len(seeds) = 3 /\ seeds[1] = "task_account"
    THEN (IF \E id \in TaskIds : seeds[3] = [i \in 1..8 |-> ByteLE(id, i)]
          THEN TaskAddressNames[seeds[2]][CHOOSE id \in TaskIds :
                                              seeds[3] = [i \in 1..8 |-> ByteLE(id, i)]]
          ELSE "Other")
    ELSE "Other"

Addresses == Keys \cup {"Config", "T1", "T2", "T3", "T4", "Other"}

\* getMinimumBalanceForRentExemption(space) of the cluster.
RentExemptMinimum(space) == (space + 128) * 6960
\* The fee of a transaction with one signature.
TxFee == 5000
\* The sizes the program allocates for a task account and the Config account.
ProgramTaskAccountSpace == 148
ConfigAccountLen == 8 + (32 + 32 + 32 + 8 + 1 + 8 + 8)

\* An address nothing was created at, a wallet, and the cluster before any
\* instruction of the program ran.
NoAccount ==
    [kind |-> "none", lamports |-> 0,
     admin |-> Null, minimumRewardAmount |-> 0, denialPenaltyDuration |-> 0,
     taskId |-> 0, consignerWallet |-> Null, rewardAmountLocked |-> 0,
     creationTimestamp |-> 0, durationSeconds |-> 0, expirationTimestamp |-> 0,
     status |-> "none", statusUpdateTimestamp |-> 0, isInitialized |-> FALSE]
Wallet == [kind |-> "wallet", lamports |-> LAMPORTS_PER_SOL]
EmptyCluster == [a \in Keys |-> Wallet]
\* getAccountInfo(a) / account.fetch(a)
Account(acc, a) == IF a \in DOMAIN acc THEN acc[a] ELSE NoAccount
\* an account created at address a
Create(acc, a, account) == [b \in DOMAIN acc \cup {a} |-> IF b = a THEN account ELSE acc[b]]

\* An instruction call: the instruction, the signer, the accounts and the
\* arguments (the fields an instruction does not take are left at NoCall's).
NoCall ==
    [instr |-> "none", signer |-> Null, config |-> "Config", taskAccount |-> "Other",
     recipient |-> Null, admin |-> Null, minimumRewardAmount |-> 0,
     denialPenaltyDuration |-> 0, taskId |-> 0, rewardAmount |-> 0, durationSeconds |-> 0]

\* --------------------------------------------------------- the on-chain program
\* The result of an instruction: whether it succeeded, the error it failed
\* with, and the accounts after it (unchanged when it failed).
Fail(acc, tag) == [ok |-> FALSE, err |-> tag, accounts |-> acc]
Done(acc) == [ok |-> TRUE, err |-> "", accounts |-> acc]

\* lamports moved from one account to another
Transfer(acc, from, to, amount) ==
    IF from = to THEN acc
    ELSE [acc EXCEPT ![from].lamports = @ - amount, ![to].lamports = @ + amount]
\* the fee the signer of a successful transaction pays
PayFee(acc, signer) == [acc EXCEPT ![signer].lamports = @ - TxFee]

initializeProgram(acc, call, t) ==
    IF call.config # FindProgramAddress(ProgramConfigSeeds) THEN Fail(acc, "ConstraintSeeds")
    ELSE IF Account(acc, call.config).kind # "none" THEN Fail(acc, "AlreadyInUse")
    ELSE LET rent == RentExemptMinimum(ConfigAccountLen)
             created == Create([acc EXCEPT ![call.signer].lamports = @ - rent],
                               call.config,
                               [NoAccount EXCEPT !.kind = "config",
                                                 !.lamports = rent,
                                                 !.admin = call.admin,
                                                 !.minimumRewardAmount = call.minimumRewardAmount,
                                                 !.denialPenaltyDuration = call.denialPenaltyDuration,
                                                 !.isInitialized = TRUE])
         IN  Done(PayFee(created, call.signer))

createTask(acc, call, t) ==
    IF call.config # FindProgramAddress(ProgramConfigSeeds) THEN Fail(acc, "ConstraintSeeds")
    ELSE IF Account(acc, call.config).kind # "config" THEN Fail(acc, "AccountNotInitialized")
    ELSE IF call.taskAccount # FindProgramAddress(ProgramTaskSeeds(call.signer, call.taskId))
    THEN Fail(acc, "ConstraintSeeds")
    ELSE IF Account(acc, call.taskAccount).kind # "none" THEN Fail(acc, "AlreadyInUse")
    ELSE IF call.rewardAmount < acc[call.config].minimumRewardAmount
    THEN Fail(acc, "RewardAmountTooLow")
    ELSE LET rent == RentExemptMinimum(ProgramTaskAccountSpace)
             created == Create([acc EXCEPT ![call.signer].lamports = @ - rent],
                               call.taskAccount,
                               [NoAccount EXCEPT !.kind = "task",
                                                 !.lamports = rent,
                                                 !.taskId = call.taskId,
                                                 !.consignerWallet = call.signer,
                                                 !.rewardAmountLocked = call.rewardAmount,
                                                 !.creationTimestamp = t,
                                                 !.durationSeconds = call.durationSeconds,
                                                 !.expirationTimestamp = t + call.durationSeconds,
                                                 !.status = "Open",
                                                 !.statusUpdateTimestamp = t,
                                                 !.isInitialized = TRUE])
         IN  Done(PayFee(Transfer(created, call.signer, call.taskAccount, call.rewardAmount),
                         call.signer))

acceptTask(acc, call, t) ==
    LET task == Account(acc, call.taskAccount) IN
    IF task.kind # "task" THEN Fail(acc, "AccountNotInitialized")
    ELSE IF call.signer # task.consignerWallet THEN Fail(acc, "NotTaskConsigner")
    ELSE IF task.status # "Open" THEN Fail(acc, "TaskNotOpen")
    ELSE IF t > task.expirationTimestamp THEN Fail(acc, "TaskExpired")
    ELSE IF call.recipient = task.consignerWallet THEN Fail(acc, "InvalidRecipient")
    ELSE Done(PayFee(Transfer([acc EXCEPT ![call.taskAccount].status = "Accepted",
                                          ![call.taskAccount].statusUpdateTimestamp = t],
                              call.taskAccount, call.recipient, task.rewardAmountLocked),
                     call.signer))

rejectTask(acc, call, t) ==
    LET task == Account(acc, call.taskAccount) IN
    IF task.kind # "task" THEN Fail(acc, "AccountNotInitialized")
    ELSE IF call.signer # task.consignerWallet THEN Fail(acc, "NotTaskConsigner")
    ELSE IF task.status # "Open" THEN Fail(acc, "TaskNotOpen")
    ELSE IF t > task.expirationTimestamp THEN Fail(acc, "TaskExpired")
    ELSE Done(PayFee([acc EXCEPT ![call.taskAccount].status = "Rejected",
                                 ![call.taskAccount].statusUpdateTimestamp = t],
                     call.signer))

reclaimTaskFunds(acc, call, t) ==
    LET task == Account(acc, call.taskAccount) IN
    IF task.kind # "task" \/ Account(acc, call.config).kind # "config"
    THEN Fail(acc, "AccountNotInitialized")
    ELSE IF call.signer # task.consignerWallet THEN Fail(acc, "NotConsigner")
    ELSE IF task.status = "Rejected"
              /\ t - task.statusUpdateTimestamp < acc[call.config].denialPenaltyDuration
    THEN Fail(acc, "DenialLockupActive")
    ELSE IF ~(task.status = "Rejected" \/ (task.status = "Open" /\ t > task.expirationTimestamp))
    THEN Fail(acc, "CannotReclaimFunds")
    ELSE Done(PayFee(Transfer([acc EXCEPT ![call.taskAccount].status = "Reclaimed",
                                          ![call.taskAccount].statusUpdateTimestamp = t],
                              call.taskAccount, task.consignerWallet, task.rewardAmountLocked),
                     call.signer))

\* The program run on one instruction call at time t.
Execute(acc, call, t) ==
    CASE call.instr = "initializeProgram" -> initializeProgram(acc, call, t)
      [] call.instr = "createTask" -> createTask(acc, call, t)
      [] call.instr = "Accept" -> acceptTask(acc, call, t)
      [] call.instr = "Reject" -> rejectTask(acc, call, t)
      [] call.instr = "Reclaim" -> reclaimTaskFunds(acc, call, t)
      [] OTHER -> Fail(acc, "InstructionFallbackNotFound")

\* What rpc() throws when the program fails with tag: the business-rule
\* errors are reported in the diagnostic logs behind the program's marker,
\* an occupied address by the system program's message.
ProgramError(tag) ==
    [message |-> IF tag = "AlreadyInUse" THEN <<"Account already in use">>
                 ELSE <<"Transaction simulation failed">>,
     hasLogs |-> TRUE,
     logs |-> IF tag \in Tags
              THEN <<<<"Program log:", "invoke">>, <<"Program log:", Marker, tag>>>>
              ELSE <<<<"Program log:", "invoke">>>>]

\* No transaction sent yet.
NoTx == [id |-> 0]

InitCluster ==
    /\ now = 1
    /\ accounts = EmptyCluster
    /\ lastTx = NoTx

\* -------------------------------------------------------------------- Init
NoError == [message |-> <<>>, hasLogs |-> FALSE, logs |-> <<>>]

Init ==
    /\ publicKey = Null
    /\ signTransaction = FALSE
    /\ isLoading = [c \in Comps |-> FALSE]
    /\ clicks = 0
    /\ pending = <<>>
    /\ last = NoRun
    /\ rpcCalls = 0
    /\ hook = useSolanaProgram(Null, FALSE)
    /\ tInvoker = "Accept"
    /\ tError = NoError
    /\ tOut = <<>>
    /\ tDone = FALSE
    /\ InitCluster

\* ----------------------------------------------------------------- actions
\* The wallet connects, disconnects or changes; every component and the hook
\* are rendered again with the new useWallet() value.
WalletChange ==
    \E pk \in Keys \cup {Null}, sign \in BOOLEAN :
        /\ <<pk, sign>> # <<publicKey, signTransaction>>
        /\ publicKey' = pk
        /\ signTransaction' = sign
        /\ hook' = useSolanaProgram(pk, sign)
        /\ UNCHANGED <<isLoading, clicks, pending, last, rpcCalls, trVars, chainVars>>

\* A handler is entered with the props taskStr and recStr and runs to its
\* first await or to its early return.
Start(c, taskStr, recStr) ==
    \E errThrows \in ThrowChoices(HandlerStart(c, taskStr, recStr, FALSE)) :
    LET run == HandlerStart(c, taskStr, recStr, errThrows)
    IN  /\ clicks < MaxClicks
        /\ clicks' = clicks + 1
        /\ isLoading' = LoadingAfterStart(c, run)
        /\ rpcCalls' = IF run.called THEN rpcCalls + 1 ELSE rpcCalls
        /\ IF run.pc = "done"
           THEN last' = run /\ pending' = pending
           ELSE pending' = Append(pending, run) /\ last' = last
        /\ UNCHANGED <<publicKey, signTransaction, hook, trVars, chainVars>>

\* onClick of an enabled button.
Click(c) ==
    \E taskStr \in TaskStrings :
        \E recStr \in (IF c = "Accept" THEN RecipientStrings ELSE {""}) :
            /\ ~Disabled(c, taskStr, recStr)
            /\ Start(c, taskStr, recStr)

\* pending without its i-th run
Remove(seq, i) == SubSeq(seq, 1, i - 1) \o SubSeq(seq, i + 1, Len(seq))

\* The handler's return: its run record is final and the busy flag is reset.
Return(i, run) ==
    \E errThrows \in ThrowChoices(run) :
        /\ last' = Finally(Propagate(run, errThrows))
        /\ pending' = Remove(pending, i)
        /\ isLoading' = FinallySetIsLoading(Propagate(run, errThrows))
    /\ UNCHANGED <<publicKey, signTransaction, clicks, rpcCalls, hook, trVars, chainVars>>

\* The rpc call returns a signature (the signature of run number n is n).
RpcResolve(i) ==
    /\ pending[i].pc = "rpc"
    /\ pending' = [pending EXCEPT ![i] = RpcResolved(pending[i], pending[i].id)]
    /\ UNCHANGED <<publicKey, signTransaction, isLoading, clicks, last, rpcCalls, hook, trVars, chainVars>>

\* The rpc call throws: catch, finally.
RpcReject(i) ==
    /\ pending[i].pc = "rpc"
    /\ \E error \in RpcErrors : Return(i, CatchBlock(pending[i], error))

\* confirmTransaction returns, with or without an on-chain error.
ConfirmResolve(i) ==
    /\ pending[i].pc = "confirm"
    /\ \E err \in ChainErrors \cup {Null}, throws \in BOOLEAN :
           Return(i, Confirmed(pending[i], err, throws))

\* confirmTransaction throws (a timeout, a transport failure): catch, finally.
ConfirmReject(i) ==
    /\ pending[i].pc = "confirm"
    /\ Return(i, CatchBlock(pending[i], [message |-> <<"confirmation failed">>,
                                          hasLogs |-> FALSE, logs |-> <<>>]))

Next ==
    \/ WalletChange
    \/ \E c \in Comps : Click(c)
    \/ \E i \in 1..Len(pending) : RpcResolve(i)
    \/ \E i \in 1..Len(pending) : RpcReject(i)
    \/ \E i \in 1..Len(pending) : ConfirmResolve(i)
    \/ \E i \in 1..Len(pending) : ConfirmReject(i)

Spec == Init /\ [][Next]_vars

\* One of the awaited promises of a suspended run settles.
Settle ==
    \E i \in 1..Len(pending) :
        RpcResolve(i) \/ RpcReject(i) \/ ConfirmResolve(i) \/ ConfirmReject(i)

\* The components mounted under any wallet state.  WalletChange leaves the
\* busy flags and the suspended runs as they are (a run keeps the wallet it
\* closed over), so the wallet is held fixed along a behaviour here.
InitSettling ==
    /\ publicKey \in Keys \cup {Null}
    /\ signTransaction \in BOOLEAN
    /\ isLoading = [c \in Comps |-> FALSE]
    /\ clicks = 0
    /\ pending = <<>>
    /\ last = NoRun
    /\ rpcCalls = 0
    /\ hook = useSolanaProgram(publicKey, signTransaction)
    /\ tInvoker = "Accept"
    /\ tError = NoError
    /\ tOut = <<>>
    /\ tDone = FALSE
    /\ InitCluster

NextSettling ==
    \/ \E c \in Comps : Click(c)
    \/ Settle

\* The handlers under the assumption that every awaited rpc call and
\* confirmation settles.
SpecSettling == InitSettling /\ [][NextSettling]_vars /\ WF_vars(Settle)

\* ------------------------------------ the error translator taken in isolation
InitTranslator ==
    /\ publicKey = Null
    /\ signTransaction = FALSE
    /\ isLoading = [c \in Comps |-> FALSE]
    /\ clicks = 0
    /\ pending = <<>>
    /\ last = NoRun
    /\ rpcCalls = 0
    /\ hook = useSolanaProgram(Null, FALSE)
    /\ tInvoker \in Comps
    /\ tError \in ThrownErrors
    /\ tOut = <<>>
    /\ tDone = FALSE
    /\ InitCluster

\* The catch block of component tInvoker receives tError.
RunTranslator ==
    /\ ~tDone
    /\ tOut' = Translate(tInvoker, tError)
    /\ tDone' = TRUE
    /\ UNCHANGED <<sysVars, tInvoker, tError, chainVars>>

SpecTranslator == InitTranslator /\ [][RunTranslator]_vars

\* --------------------------- the handlers called without the button's guard
\* A handler called as a function on a component that is not busy, whatever
\* the wallet and the props are (the button would be disabled for some).
Invoke(c) ==
    \E taskStr \in TaskStrings :
        \E recStr \in (IF c = "Accept" THEN RecipientStrings ELSE {""}) :
            /\ ~isLoading[c]
            /\ Start(c, taskStr, recStr)

NextHandler ==
    \/ Next
    \/ \E c \in Comps : Invoke(c)

SpecHandler == Init /\ [][NextHandler]_vars

\* ------------------------------------------------------------------ claims
\* The handler runs the state holds: the suspended ones and the last returned.
AllRuns == {pending[i] : i \in 1..Len(pending)} \cup (IF last.id # 0 THEN {last} ELSE {})

\* The recipient string of an Accept run decodes to key.
RecipientIs(r, key) ==
    r.comp = "Accept" /\ ~PublicKeyThrows(r.recStr) /\ NewPublicKey(r.recStr) = key

\* C1 as stated (refuted): every Accept run whose recipient is the consigner
\* stored in the task account, whoever the connected signer is, ends with the
\* failure callback invoked and without an rpc call.
C1_Original ==
    \A r \in AllRuns :
        (r.provider /\ r.taskStr = "sT1" /\ RecipientIs(r, TaskConsigner))
            => (~r.called /\ r.errCalls >= 1)

\* C1 amended: every Accept run whose recipient is the connected wallet's own
\* public key ends with the failure callback invoked once, with the
\* same-address message when the task string is well formed, and without an
\* rpc call.
C1_Theorem ==
    \A r \in AllRuns :
        (r.provider /\ RecipientIs(r, r.signer))
            => /\ ~r.called /\ r.sig = 0 /\ r.pc = "done"
               /\ r.okCalls = 0 /\ r.errCalls = 1
               /\ (r.taskStr = "sT1" => r.errMsg = FormatErrorMessage("Accept", MsgSameAddress))

C1_Witness ==
    /\ last.id # 0 /\ last.provider /\ last.taskStr = "sT1"
    /\ RecipientIs(last, last.signer) /\ last.signer = TaskConsigner
    /\ last.errCalls = 1 /\ rpcCalls = 0

\* C2: in every component, a run whose rpc call returned a signature and whose
\* confirmation carries an on-chain error never calls the success callback
\* and calls the failure callback.
C2_Theorem ==
    \A r \in AllRuns :
        (r.sig # 0 /\ r.confirmed /\ r.confErr)
            => (r.okCalls = 0 /\ r.errCalls = 1 /\ r.errMsg = TxFailedMessage("InstructionError"))

C2_Witness ==
    /\ last.comp = "Reclaim" /\ last.sig # 0 /\ last.confirmed /\ last.confErr
    /\ last.errCalls = 1

\* C3: a run started by a click on an enabled button has called no callback
\* while it is suspended, and when it has returned (its success callback not
\* having thrown) it has made exactly one callback call in total.
C3_Theorem ==
    \A r \in AllRuns :
        IF r.pc = "done"
        THEN ~r.okThrew => r.okCalls + r.errCalls = 1
        ELSE r.okCalls + r.errCalls = 0

C3_Witness ==
    /\ last.id = 2 /\ last.pc = "done" /\ last.okCalls = 1 /\ last.errCalls = 0
    /\ ~last.okThrew

\* C4: at every moment each component has at most one run suspended between
\* its rpc call and its return, and while it has one its button is disabled
\* whatever the props are.
C4_Theorem ==
    \A c \in Comps :
        LET inFlight == {i \in 1..Len(pending) : pending[i].comp = c}
        IN  /\ Cardinality(inFlight) <= 1
            /\ inFlight # {} =>
                 /\ isLoading[c]
                 /\ \A t \in TaskStrings, r \in RecipientStrings : Disabled(c, t, r)

C4_Witness ==
    /\ Len(pending) = 2
    /\ pending[1].comp = "Accept" /\ pending[1].pc = "confirm"
    /\ pending[2].comp = "Reject" /\ publicKey # Null

\* ------------------------------------------- claims on the error translator
\* The translator ran on a thrown object that carries log lines.
Translated == tDone /\ tError.hasLogs

\* Positions of the log lines that contain the program-error marker.
MarkerLines == {i \in 1..Len(tError.logs) : \E j \in 1..Len(tError.logs[i]) :
                   tError.logs[i][j] = Marker}

\* The first line with the marker, and its text after the first marker.
FirstMarkerLine == tError.logs[CHOOSE i \in MarkerLines : \A j \in MarkerLines : i <= j]
TextAfterMarker ==
    LET line == FirstMarkerLine
        m == CHOOSE j \in 1..Len(line) :
                 line[j] = Marker /\ \A h \in 1..(j - 1) : line[h] # Marker
    IN  SubSeq(line, m + 1, Len(line))

\* The entries of component c's table whose tag the text starts with.
TableHits(c, text) ==
    {e \in {ErrorTable(c)[n] : n \in 1..Len(ErrorTable(c))} :
        Len(text) >= 1 /\ text[1] = e[1]}

\* C5: when some log line contains "SunpathError::", the message is the text
\* after the marker in the first such line, mapped through the component's
\* table, whatever the thrown message and the other lines are.
C5_Theorem ==
    (Translated /\ MarkerLines # {}) =>
        /\ TableHits(tInvoker, TextAfterMarker) # {} =>
               \E e \in TableHits(tInvoker, TextAfterMarker) : tOut = e[2]
        /\ TableHits(tInvoker, TextAfterMarker) = {} => tOut = TextAfterMarker

C5_Witness ==
    /\ Translated /\ tInvoker = "Accept" /\ tError.message # <<>>
    /\ Len(tError.logs) = 3
    /\ tError.logs[1] = <<ErrorMarker, "first">>
    /\ tError.logs[2] = <<"Program log:", Marker, "TaskExpired", "detail">>
    /\ tError.logs[3] = <<Marker, "TaskNotOpen">>
    /\ tOut = <<"TaskIsExpired (TaskExpired)">>

\* Positions of the lines containing "Error:", and of those containing
\* "Program failed to complete" and not "Error:".
ErrorLines == {i \in 1..Len(tError.logs) : \E j \in 1..Len(tError.logs[i]) :
                  tError.logs[i][j] = ErrorMarker}
FailedLines == {i \in 1..Len(tError.logs) : i \notin ErrorLines /\
                  \E j \in 1..Len(tError.logs[i]) : tError.logs[i][j] = FailedMarker}
OwnMessage == IF tError.message = <<>> THEN MsgUnknown ELSE tError.message

\* C6 as stated (refuted): with no marker line, the message is the first
\* "Error:" line if there is one, otherwise the generic message if a line says
\* "Program failed to complete", otherwise the thrown message or the default.
C6_Original ==
    (Translated /\ MarkerLines = {}) =>
        tOut = IF ErrorLines # {}
               THEN tError.logs[CHOOSE i \in ErrorLines : \A j \in ErrorLines : i <= j]
               ELSE IF \E i \in 1..Len(tError.logs) : \E j \in 1..Len(tError.logs[i]) :
                           tError.logs[i][j] = FailedMarker
               THEN MsgProgramFailed
               ELSE OwnMessage

\* C6 amended: with no marker line, the last line that contains "Error:" or
\* "Program failed to complete" decides: it is the message verbatim when it
\* contains "Error:", otherwise the message is the generic one; with no such
\* line (or no logs) the message is the thrown message or the default.
C6_Theorem ==
    /\ (tDone /\ ~tError.hasLogs) => tOut = OwnMessage
    /\ (Translated /\ MarkerLines = {}) =>
        LET hits == ErrorLines \cup FailedLines
        IN  IF hits = {} THEN tOut = OwnMessage
            ELSE LET n == CHOOSE i \in hits : \A j \in hits : j <= i
                 IN  tOut = IF n \in ErrorLines THEN tError.logs[n] ELSE MsgProgramFailed

C6_Witness ==
    /\ Translated /\ MarkerLines = {}
    /\ Len(tError.logs) = 3
    /\ tError.logs[1] = <<ErrorMarker, "first">>
    /\ tError.logs[2] = <<"Program log:", ErrorMarker, "second">>
    /\ tError.logs[3] = <<FailedMarker>>
    /\ tOut = MsgProgramFailed

\* The localized messages any component's table gives for a tag.
LocalizedFor(tag) ==
    UNION {{e[2] : e \in {x \in {ErrorTable(c)[n] : n \in 1..Len(ErrorTable(c))} :
                             x[1] = tag}} : c \in Comps}

\* C7 as stated (refuted): in every component, for each of the seven tags, a
\* first marker line whose text after the marker starts with the tag is
\* translated to a localized message of that tag and not passed through raw.
C7_Original ==
    (Translated /\ MarkerLines # {} /\ Len(TextAfterMarker) >= 1
        /\ TextAfterMarker[1] \in Tags) =>
        (tOut \in LocalizedFor(TextAfterMarker[1]) /\ tOut # TextAfterMarker)

\* C7 amended: each component translates the tags of its own table (Accept:
\* NotTaskConsigner, TaskNotOpen, TaskExpired, InvalidRecipient; Reject:
\* NotTaskConsigner, TaskNotOpen, TaskExpired; Reclaim: NotConsigner,
\* CannotReclaimFunds, DenialLockupActive) to its localized message; the text
\* after the marker is passed through raw for the other tags.
OwnTags(c) ==
    IF c = "Accept" THEN {"NotTaskConsigner", "TaskNotOpen", "TaskExpired", "InvalidRecipient"}
    ELSE IF c = "Reject" THEN {"NotTaskConsigner", "TaskNotOpen", "TaskExpired"}
    ELSE {"NotConsigner", "CannotReclaimFunds", "DenialLockupActive"}

C7_Theorem ==
    (Translated /\ MarkerLines # {} /\ Len(TextAfterMarker) >= 1
        /\ TextAfterMarker[1] \in Tags) =>
        IF TextAfterMarker[1] \in OwnTags(tInvoker)
        THEN /\ tOut \in LocalizedFor(TextAfterMarker[1])
             /\ tOut # TextAfterMarker
             /\ Len(tOut) = 1
             /\ \A t \in Tags \ {TextAfterMarker[1]} : tOut \notin LocalizedFor(t)
        ELSE tOut = TextAfterMarker

C7_Witness ==
    /\ Translated /\ tInvoker = "Reclaim"
    /\ Len(tError.logs) = 2
    /\ tError.logs[1] = <<"Program log:", "invoke">>
    /\ tError.logs[2] = <<Marker, "DenialLockupActive">>
    /\ tOut = <<"LockupActive (DenialLockupActive)">>

\* ------------------------------------- claims on validation and the provider
\* The run entered last.
Newest ==
    IF \E i \in 1..Len(pending) : pending[i].id = clicks
    THEN pending[CHOOSE i \in 1..Len(pending) : pending[i].id = clicks]
    ELSE last

\* The inputs of run r fail locally: a malformed or empty task string, in
\* Accept a malformed or empty recipient string, or a wallet without a public
\* key or without the signing capability.
LocalInvalid(r) ==
    \/ r.taskStr \notin {"sK1", "sK2", "sT1"}
    \/ (r.comp = "Accept" /\ r.recStr \notin {"sK1", "sK2", "sT1"})
    \/ r.signer = Null
    \/ ~r.sign

\* C8: whenever a handler is entered with inputs that fail locally, that step
\* calls the failure callback, makes no rpc call, returns at once and leaves
\* the component's busy flag false.
C8_Theorem ==
    [][(clicks' = clicks + 1 /\ LocalInvalid(Newest')) =>
          /\ Newest'.errCalls >= 1 /\ Newest'.okCalls = 0
          /\ ~Newest'.called /\ Newest'.pc = "done"
          /\ rpcCalls' = rpcCalls
          /\ ~isLoading'[Newest'.comp]]_vars

C8_Witness ==
    /\ last.id = clicks /\ last.comp = "Accept" /\ last.provider
    /\ last.taskStr = "sT1" /\ last.recStr = "bad"
    /\ last.errCalls = 1 /\ ~last.called /\ rpcCalls = 0
    /\ last.errMsg = FormatErrorMessage("Accept", MsgInvalidKey)
    /\ ~isLoading["Accept"]

\* C9: a run has called the success callback only if its rpc call was made and
\* returned a signature, its confirmation was awaited and returned without
\* error, and the argument was the signature of that same run.
C9_Theorem ==
    \A r \in AllRuns :
        r.okCalls > 0 =>
            /\ r.okCalls = 1
            /\ r.called /\ r.sig # 0 /\ r.sig = r.id
            /\ r.confirmed /\ ~r.confErr
            /\ r.okArg = r.sig

C9_Witness ==
    /\ last.id = 1 /\ last.okCalls = 1 /\ last.okArg = 1 /\ last.errCalls = 0
    /\ Len(pending) = 1 /\ pending[1].sig = 2

\* C10 as stated (refuted): the hook and every getProvider produce a context
\* exactly when the public key and the signing capability are both present,
\* and surface an error to the caller when they produce none.
C10_Original ==
    /\ (hook.provider # Null) <=> (publicKey # Null /\ signTransaction)
    /\ hook.provider = Null => hook.errorSurfaced
    /\ \A r \in AllRuns :
           /\ r.provider <=> (r.signer # Null /\ r.sign)
           /\ ~r.provider => r.errCalls >= 1

\* C10 amended: the hook and every getProvider produce a context exactly when
\* the public key and the signing capability are both present; when either is
\* absent a component's getProvider calls onError with the not-connected
\* error, while the hook returns provider null and surfaces no error.
C10_Theorem ==
    /\ (hook.provider # Null) <=> (publicKey # Null /\ signTransaction)
    /\ hook.publicKey = publicKey
    /\ ~hook.errorSurfaced
    /\ \A r \in AllRuns :
           /\ r.provider <=> (r.signer # Null /\ r.sign)
           /\ ~r.provider =>
                 /\ r.errCalls >= 1 /\ r.errMsg = MsgNotConnected
                 /\ ~r.called /\ r.pc = "done"

C10_Witness ==
    /\ last.id # 0 /\ ~last.provider /\ last.signer # Null /\ ~last.sign
    /\ last.errCalls = 1 /\ last.errMsg = MsgNotConnected
    /\ hook.provider = Null /\ publicKey # Null

\* ----------------------------- the test script and other clients of the program
\* A transaction sent straight to the cluster: the program runs on the call at
\* the current time; passed is the verdict of the test that sent it.
Submit(by, call, passed) ==
    LET res == Execute(accounts, call, now)
    IN  /\ lastTx.id < MaxTx
        /\ accounts' = res.accounts
        /\ lastTx' = [id |-> lastTx.id + 1, by |-> by, call |-> call, at |-> now,
                      ok |-> res.ok, err |-> res.err, passed |-> passed]
        /\ UNCHANGED <<now, sysVars, trVars>>

\* The cluster's clock advances.
Tick ==
    /\ now < MaxTime
    /\ now' = now + 1
    /\ UNCHANGED <<accounts, lastTx, sysVars, trVars>>

\* error.toString().includes("custom program error: 0x0") ||
\* error.toString().includes("Account already in use")
Tolerated(error) ==
    \E i \in 1..Len(error.message) :
        error.message[i] \in {"custom program error: 0x0", "Account already in use"}

\* Mutant of InitializeVerdict: the tolerated failure passes without the
\* admin being compared.
InitializeVerdictUnchecked(res) ==
    res.ok \/ Tolerated(ProgramError(res.err))

\* it("Is initialized! (or verifies existing initialization)"): passes when
\* the call succeeds, or fails in the tolerated way and the fetched Config
\* holds the expected admin; every other error is thrown again.
InitializeVerdict(res) ==
    IF res.ok THEN TRUE
    ELSE IF Tolerated(ProgramError(res.err))
    THEN Account(res.accounts, FindProgramAddress(configPdaSeed)).admin = adminPublicKey
    ELSE FALSE

InitializeCall(signer, admin, config) ==
    [NoCall EXCEPT !.instr = "initializeProgram", !.signer = signer, !.config = config,
                   !.admin = admin,
                   !.minimumRewardAmount = minimumRewardAmountInConfig,
                   !.denialPenaltyDuration = denialPenaltyDuration]

\* The initialize test run with the wallet adminSigner.
TestInitialize ==
    \E adminSigner \in Keys :
        LET call == InitializeCall(adminSigner, adminPublicKey, FindProgramAddress(configPdaSeed))
        IN  Submit("test", call, InitializeVerdict(Execute(accounts, call, now)))

\* Another client initializes the program, with the admin and the Config
\* address of its choice.
ClientInitialize ==
    \E signer \in Keys, admin \in Keys, config \in {"Config", "Other"} :
        Submit("client", InitializeCall(signer, admin, config), FALSE)

CreateTaskCall(consigner, taskId, reward, duration) ==
    [NoCall EXCEPT !.instr = "createTask", !.signer = consigner,
                   !.config = FindProgramAddress(configPdaSeed),
                   !.taskAccount = FindProgramAddress(TaskSeeds(consigner, taskId)),
                   !.taskId = taskId, !.rewardAmount = reward, !.durationSeconds = duration]

\* The expect(...) lines of the create-task test on the fetched task data and
\* account info.
CreateTaskExpectations(taskData, call) ==
    /\ taskData.kind = "task"
    /\ taskData.taskId = call.taskId
    /\ taskData.consignerWallet = call.signer
    /\ taskData.rewardAmountLocked = call.rewardAmount
    /\ taskData.durationSeconds = call.durationSeconds
    /\ taskData.status = "Open"
    /\ taskData.isInitialized
    /\ taskData.creationTimestamp > 0
    /\ taskData.expirationTimestamp = taskData.creationTimestamp + call.durationSeconds
    /\ taskData.statusUpdateTimestamp = taskData.creationTimestamp
    /\ taskData.lamports = call.rewardAmount + RentExemptMinimum(TaskAccountLen)

\* it("Creates a task successfully"): a throw of rpc() fails the test.
CreateTaskVerdict(res, call) ==
    res.ok /\ CreateTaskExpectations(Account(res.accounts, call.taskAccount), call)

\* The create-task test run with the wallet adminSigner and the task id the
\* clock gave it.
TestCreateTask ==
    \E adminSigner \in Keys, taskId \in TaskIds :
        LET call == CreateTaskCall(adminSigner, taskId, rewardAmount, durationSeconds)
        IN  Submit("test", call, CreateTaskVerdict(Execute(accounts, call, now), call))

\* Another client creates a task.
ClientCreateTask ==
    \E consigner \in Keys, taskId \in TaskIds, reward \in RewardAmounts, duration \in Durations :
        Submit("client", CreateTaskCall(consigner, taskId, reward, duration), FALSE)

NextProgram ==
    \/ Tick
    \/ TestInitialize
    \/ ClientInitialize
    \/ TestCreateTask
    \/ ClientCreateTask

SpecProgram == Init /\ [][NextProgram]_vars

\* ------------------------------------- the components against the program
\* The instruction call ....rpc() sends for a run: the accounts of RpcCall and
\* the Config address the handler derived.
ChainCall(run) ==
    [NoCall EXCEPT !.instr = RpcCall(run).instr,
                   !.signer = RpcCall(run).consignerWallet,
                   !.config = FindProgramAddress(<<"config_v2">>),
                   !.taskAccount = RpcCall(run).taskAccount,
                   !.recipient = RpcCall(run).recipient]

\* The cluster once the test script has initialized the program and the
\* consigner of T1 has created it at time 1 with the duration given.
ClusterWithTask(duration) ==
    createTask(initializeProgram(EmptyCluster,
                                 InitializeCall(adminPublicKey, adminPublicKey,
                                                FindProgramAddress(configPdaSeed)),
                                 1).accounts,
               CreateTaskCall(TaskConsigner, 1, rewardAmount, duration), 1).accounts

\* The components mounted with a connected wallet, task T1 on the cluster.
InitChain ==
    /\ publicKey \in Keys
    /\ signTransaction = TRUE
    /\ isLoading = [c \in Comps |-> FALSE]
    /\ clicks = 0
    /\ pending = <<>>
    /\ last = NoRun
    /\ rpcCalls = 0
    /\ hook = useSolanaProgram(publicKey, signTransaction)
    /\ tInvoker = "Accept"
    /\ tError = NoError
    /\ tOut = <<>>
    /\ tDone = FALSE
    /\ now = 1
    /\ \E duration \in Durations : accounts = ClusterWithTask(duration)
    /\ lastTx = NoTx

\* The cluster runs the program on the instruction of a suspended run: rpc()
\* returns the signature when the program succeeds and throws the program's
\* error with its logs when it fails.
ChainRpc(i) ==
    /\ pending[i].pc = "rpc"
    /\ LET res == Execute(accounts, ChainCall(pending[i]), now)
       IN  IF res.ok
           THEN /\ pending' = [pending EXCEPT ![i] = RpcResolved(pending[i], pending[i].id)]
                /\ accounts' = res.accounts
                /\ UNCHANGED <<publicKey, signTransaction, isLoading, clicks, last,
                               rpcCalls, hook, trVars, now, lastTx>>
           ELSE Return(i, CatchBlock(pending[i], ProgramError(res.err)))

\* The transaction the program ran is finalized: confirmTransaction returns
\* without an error.
ChainConfirm(i) ==
    /\ pending[i].pc = "confirm"
    /\ \E throws \in BOOLEAN : Return(i, Confirmed(pending[i], Null, throws))

NextChain ==
    \/ Tick
    \/ \E c \in Comps : Click(c)
    \/ \E i \in 1..Len(pending) : ChainRpc(i)
    \/ \E i \in 1..Len(pending) : ChainConfirm(i)

SpecChain == InitChain /\ [][NextChain]_vars

\* ------------------------- claims about the program, the tests and the callbacks
\* C11: when the program runs an acceptTask sent by a signer that is not the
\* consigner stored in the task account, the run ends in its catch block: the
\* failure callback gets Accept's localized no-permission message (the
\* NotTaskConsigner entry), the success callback is not called, and the task
\* account, its status included, is after the call what it was before.
C11_Step ==
    \A i \in 1..Len(pending) :
        LET run == pending[i]
            task == Account(accounts, NewPublicKey(run.taskStr))
        IN  (ChainRpc(i) /\ run.comp = "Accept" /\ task.kind = "task"
                /\ run.signer # task.consignerWallet) =>
                /\ last'.id = run.id /\ last'.pc = "done"
                /\ last'.errCalls = 1
                /\ last'.errMsg = <<"AcceptNoPermission (NotTaskConsigner)">>
                /\ last'.okCalls = 0
                /\ Account(accounts', NewPublicKey(run.taskStr)).status = task.status
                /\ accounts' = accounts

C11_Theorem == [][C11_Step]_vars

C11_Witness ==
    /\ last.comp = "Accept" /\ last.called /\ last.signer = "K2"
    /\ last.recStr = "sK1"
    /\ last.errMsg = <<"AcceptNoPermission (NotTaskConsigner)">>
    /\ last.okCalls = 0
    /\ Account(accounts, "T1").status = "Open"
    /\ Account(accounts, "T1").consignerWallet = "K1"

\* C12: once rejectTask has succeeded on the open task, a reclaimTaskFunds of
\* the consigner that the program runs before the denial-lockup duration has
\* elapsed since the rejection fails: the failure callback gets Reclaim's
\* lockup-active message and the escrow stays in the task account; one that
\* the program runs after the duration has elapsed succeeds: the escrowed
\* lamports leave the task account and reach the consigner.
C12_Step ==
    \A i \in 1..Len(pending) :
        LET run == pending[i]
            addr == NewPublicKey(run.taskStr)
            task == Account(accounts, addr)
        IN  (ChainRpc(i) /\ run.comp = "Reclaim" /\ task.status = "Rejected"
                /\ run.signer = task.consignerWallet) =>
                IF now - task.statusUpdateTimestamp < denialPenaltyDuration
                THEN /\ last'.id = run.id
                     /\ last'.errMsg = <<"LockupActive (DenialLockupActive)">>
                     /\ last'.okCalls = 0
                     /\ accounts' = accounts
                     /\ task.lamports = task.rewardAmountLocked
                                            + RentExemptMinimum(TaskAccountLen)
                ELSE /\ pending'[i].pc = "confirm" /\ pending'[i].sig = run.id
                     /\ Account(accounts', addr).lamports
                            = task.lamports - task.rewardAmountLocked
                     /\ accounts'[run.signer].lamports
                            = accounts[run.signer].lamports + task.rewardAmountLocked - TxFee

C12_Theorem == [][C12_Step]_vars

C12_Witness ==
    /\ last.comp = "Reclaim" /\ last.okCalls = 1 /\ last.errCalls = 0
    /\ Account(accounts, "T1").status = "Reclaimed"
    /\ Account(accounts, "T1").lamports = RentExemptMinimum(TaskAccountLen)
    /\ Account(accounts, "T1").expirationTimestamp > now

\* The last transaction sent straight to the cluster called instr.
LastTxIs(instr) == lastTx.id > 0 /\ lastTx.call.instr = instr

\* C13: after a successful createTask by any consigner with any task id, a
\* reward of at least the configured minimum and a positive duration, the
\* address derived from ("task_account", consigner, task id as 8 little-endian
\* bytes) holds a task account with that task id, the signer as consigner, the
\* reward locked, the duration, status Open, the initialized flag, creation and
\* status-update timestamps equal to the time of the call, expiration equal to
\* creation plus duration, and a balance of the reward plus the rent-exempt
\* minimum of the size the test computes; the create-task test, when its call
\* succeeds, finds all its expectations met.
C13_Theorem ==
    (LastTxIs("createTask") /\ lastTx.ok) =>
        LET call == lastTx.call
            task == Account(accounts,
                            FindProgramAddress(<<"task_account", call.signer, ToLE8(call.taskId)>>))
        IN  /\ call.rewardAmount >= Account(accounts, "Config").minimumRewardAmount
            /\ task.kind = "task"
            /\ task.taskId = call.taskId
            /\ task.consignerWallet = call.signer
            /\ task.rewardAmountLocked = call.rewardAmount
            /\ task.durationSeconds = call.durationSeconds
            /\ task.status = "Open"
            /\ task.isInitialized
            /\ task.creationTimestamp = lastTx.at
            /\ task.statusUpdateTimestamp = lastTx.at
            /\ task.expirationTimestamp = lastTx.at + call.durationSeconds
            /\ task.lamports = call.rewardAmount + RentExemptMinimum(TaskAccountLen)
            /\ (lastTx.by = "test" => lastTx.passed)

C13_Witness ==
    /\ LastTxIs("createTask") /\ lastTx.ok /\ lastTx.by = "test" /\ lastTx.passed
    /\ lastTx.call.signer = "K2" /\ lastTx.call.taskId = 256
    /\ lastTx.at = 2
    /\ Account(accounts, "T4").expirationTimestamp = 2 + durationSeconds
    /\ Account(accounts, "T4").lamports = rewardAmount + RentExemptMinimum(148)

\* C14: initializeProgram is idempotent in effect.  In every state a Config
\* account exists at no address but the one derived from "config_v2"; a call
\* that succeeds where no Config existed stores the supplied admin; a call made
\* when the Config exists fails, with the already-in-use indication when it
\* names the derived address, and leaves the stored admin as it was; and the
\* initialize test counts a failed call as a pass only when the failure is the
\* already-in-use one and the stored admin is the expected admin.
ConfigKey == FindProgramAddress(configPdaSeed)

C14_Step ==
    (lastTx'.id # lastTx.id /\ lastTx'.call.instr = "initializeProgram") =>
        LET before == Account(accounts, ConfigKey)
            after == Account(accounts', ConfigKey)
        IN  /\ (before.kind = "none" /\ lastTx'.ok) =>
                   (after.kind = "config" /\ after.admin = lastTx'.call.admin)
            /\ before.kind = "config" =>
                   /\ ~lastTx'.ok
                   /\ lastTx'.call.config = ConfigKey => lastTx'.err = "AlreadyInUse"
                   /\ after.admin = before.admin
            /\ (lastTx'.by = "test" /\ ~lastTx'.ok /\ lastTx'.passed) =>
                   (lastTx'.err = "AlreadyInUse" /\ after.admin = adminPublicKey)

C14_Theorem ==
    /\ [](\A a \in DOMAIN accounts : accounts[a].kind = "config" => a = ConfigKey)
    /\ [][C14_Step]_vars

C14_Witness ==
    /\ LastTxIs("initializeProgram") /\ lastTx.by = "test"
    /\ lastTx.id = 2
    /\ ~lastTx.ok /\ lastTx.err = "AlreadyInUse" /\ lastTx.passed
    /\ Account(accounts, ConfigKey).admin = adminPublicKey

\* C15: a component's button is disabled by its own busy flag only: with a
\* wallet connected and non-empty props, the button of a component that has no
\* run in flight is enabled whatever the other components are doing, so runs
\* of two components against the same task address can be in flight together.
C15_Theorem ==
    \A c \in Comps :
        (publicKey # Null /\ ~isLoading[c]) => ~Disabled(c, "sT1", "sK1")

C15_Witness ==
    /\ Len(pending) = 2
    /\ pending[1].comp = "Accept" /\ pending[2].comp = "Reclaim"
    /\ pending[1].taskStr = pending[2].taskStr
    /\ pending[1].pc = "rpc" /\ pending[2].pc = "rpc"
    /\ isLoading["Accept"] /\ isLoading["Reclaim"] /\ ~isLoading["Reject"]

\* C16 as stated (refuted): a first marker line whose text after the marker
\* matches no entry of the component's table yields the unknown-error default.
C16_Original ==
    (Translated /\ MarkerLines # {} /\ TableHits(tInvoker, TextAfterMarker) = {}) =>
        tOut = MsgUnknown

\* C16 amended: such a line yields the text after the marker, taken from the
\* log line unchanged (the empty string when the line ends with the marker),
\* and never the unknown-error default or the thrown object's own message.
C16_Theorem ==
    (Translated /\ MarkerLines # {} /\ TableHits(tInvoker, TextAfterMarker) = {}) =>
        /\ tOut = TextAfterMarker
        /\ tOut # MsgUnknown
        /\ tOut # OwnMessage

C16_Witness ==
    /\ Translated /\ tInvoker = "Reject" /\ tError.message = <<>>
    /\ Len(tError.logs) = 1
    /\ tError.logs[1] = <<Marker, UnknownTag>>
    /\ tOut = <<UnknownTag>>

\* C18: the busy flag of a component is true only while one of its runs is
\* suspended at an await: every early return leaves it false and every way out
\* of the second try block (success, confirmation error, thrown submission
\* error, a success or failure callback that throws) resets it; and when the
\* awaited calls settle, a busy flag that is true becomes false again.
InFlight(c) == \E i \in 1..Len(pending) : pending[i].comp = c

C18_Theorem ==
    /\ [](\A c \in Comps : isLoading[c] <=> InFlight(c))
    /\ \A c \in Comps : isLoading[c] ~> ~isLoading[c]

C18_Witness ==
    /\ last.called /\ last.errThrew /\ last.okThrew
    /\ last.confirmed /\ ~last.confErr
    /\ ~isLoading[last.comp]
    /\ ~InFlight(last.comp)

\* C19 as stated (refuted by the code): a handler run entered while the wallet
\* has no public key calls the failure callback exactly once, with the
\* wallet-not-connected error, and makes no rpc call.
C19_Claim ==
    \A r \in AllRuns :
        r.signer = Null =>
            (r.errCalls = 1 /\ r.errMsg = MsgNotConnected /\ r.okCalls = 0 /\ ~r.called)

\* C20 as stated (refuted by the code): a run whose transaction was submitted
\* and confirmed without an on-chain error never calls the failure callback.
C20_Claim ==
    \A r \in AllRuns :
        (r.sig # 0 /\ r.confirmed /\ ~r.confErr) => r.errCalls = 0

====
